---- MODULE Spec2Model ----
(***************************************************************************)
(* hierarchy_dataframe (src/lib/utils/hierarchy_dataframe.py): the table   *)
(* of unique location hierarchies of a metadata table.                     *)
(*                                                                         *)
(* A column name is the sequence of its "_"-separated words:               *)
(*   "region" is <<"region">>, "region_exposure" is <<"region","exposure">>*)
(* A string value is the sequence of its characters' code points, so that  *)
(* string order is computed, not assumed.  A cell is a record: the missing *)
(* marker (NaN/None) or a string.  A table keeps its column names in order *)
(* and each row as the sequence of its cells, by column position.          *)
(***************************************************************************)
EXTENDS Integers, Sequences, FiniteSets, TLC

VARIABLES metadata, hierarchy_columns, pc, result, error, pc2, result2, error2

vars == <<metadata, hierarchy_columns, pc, result, error, pc2, result2, error2>>

-----------------------------------------------------------------------------
(* Bounds of the explored inputs *)

MaxRows == 2

\* The strings a cell may hold: "", "Asia" (A, s), "Europe" (E) by code point rank.
Asia == <<1, 3>>
Europe == <<2>>
Strings == {<<>>, Asia, Europe}

Range(s) == {s[k] : k \in DOMAIN s}

-----------------------------------------------------------------------------
(* Values *)

NaN == [isna |-> TRUE, str |-> <<>>]
Str(s) == [isna |-> FALSE, str |-> s]
Cells == {NaN} \cup {Str(s) : s \in Strings}

gisaid_epi_isl == <<"gisaid", "epi", "isl">>
region == <<"region">>
country == <<"country">>
strain == <<"strain">>
exposure == <<"exposure">>

NoTable == [columns |-> <<>>, rows |-> <<>>]

-----------------------------------------------------------------------------
(* Strings and tuples of strings, as Python and pandas order them *)

RECURSIVE StrLess(_, _)
StrLess(a, b) ==
    IF b = <<>> THEN FALSE
    ELSE IF a = <<>> THEN TRUE
    ELSE IF a[1] # b[1] THEN a[1] < b[1]
    ELSE StrLess(Tail(a), Tail(b))

\* A mutant: rows compared on their first column only.
RowLess_first_column(r, s) ==
    r # <<>> /\ s # <<>> /\ StrLess(r[1].str, s[1].str)

\* Rows of strings compared column by column, left to right.
RECURSIVE RowLess(_, _)
RowLess(r, s) ==
    IF r = <<>> \/ s = <<>> THEN FALSE
    ELSE IF r[1] # s[1] THEN StrLess(r[1].str, s[1].str)
    ELSE RowLess(Tail(r), Tail(s))

-----------------------------------------------------------------------------
(* DataFrame.rename(columns = {h: h_strain}) *)

\* A mutant: no column renamed.
renamed_columns_kept(df, hc) == df.columns

renamed_columns(df, hc) ==
    [k \in 1..Len(df.columns) |->
        IF df.columns[k] \in Range(hc) THEN df.columns[k] \o strain
        ELSE df.columns[k]]

\* A mutant: the rename done in place, on the caller's table.
rename_inplace(df, hc) ==
    LET out == [columns |-> renamed_columns(df, hc), rows |-> df.rows]
    IN  [self |-> out, out |-> out]

\* self: the table rename was called on, afterwards; out: the table returned.
rename(df, hc) ==
    [self |-> df,
     out  |-> [columns |-> renamed_columns(df, hc), rows |-> df.rows]]

-----------------------------------------------------------------------------
(* pandas.wide_to_long(df, stubnames, i = [gisaid_epi_isl], j =            *)
(* "resolution_type", sep = "_", suffix = "\w+")                           *)

\* get_var_names' pattern ^<stub>_\w+$ : the stub's words, then at least one more.
matches_stub(col, stub) ==
    Len(col) > Len(stub) /\ SubSeq(col, 1, Len(stub)) = stub

get_var_names(df, stub) ==
    SelectSeq(df.columns, LAMBDA col : matches_stub(col, stub))

\* The position of the (first) column of that name.
column_position(df, name) ==
    CHOOSE k \in 1..Len(df.columns) :
        /\ df.columns[k] = name
        /\ \A j \in 1..(k - 1) : df.columns[j] # name

\* A mutant: no check that the ids identify the rows.
duplicated_unchecked(df, i) == FALSE

\* df[i].duplicated().any()
duplicated_any(df, i) ==
    LET p == column_position(df, i)
    IN  \E a, b \in 1..Len(df.rows) : a # b /\ df.rows[a][p] = df.rows[b][p]

\* melt of one stub's columns: one long row per (value column, record), the
\* value column's name cut down to its suffix; a missing value stays missing.
melt_stub(df, stub, i, value_vars) ==
    LET N == Len(df.rows)
        K == Len(value_vars)
        p == column_position(df, i)
    IN  [k \in 1..(K * N) |->
            LET v == value_vars[((k - 1) \div N) + 1]
                r == df.rows[((k - 1) % N) + 1]
            IN  [id              |-> r[p],
                 resolution_type |-> SubSeq(v, Len(stub) + 1, Len(v)),
                 value           |-> r[column_position(df, v)]]]

index_of(m) == [k \in 1..Len(m) |-> <<m[k].id, m[k].resolution_type>>]

\* The keys of the stubs' long rows, each once, in order of first appearance.
RECURSIVE index_union(_, _)
index_union(melted, seen) ==
    IF melted = <<>> THEN seen
    ELSE LET new == SelectSeq(index_of(Head(melted)), LAMBDA key : key \notin Range(seen))
         IN  index_union(Tail(melted), seen \o new)

\* The stub's value at an (id, resolution_type) key, missing when it has none.
value_at(m, key) ==
    IF \E k \in 1..Len(m) : index_of(m)[k] = key
    THEN m[CHOOSE k \in 1..Len(m) : index_of(m)[k] = key].value
    ELSE NaN

\* A mutant: the stubs' long rows put side by side by position, not by key.
join_by_position(melted) ==
    LET first == Head(melted)
    IN  [k \in 1..Len(first) |->
            [id              |-> first[k].id,
             resolution_type |-> first[k].resolution_type,
             values          |-> [s \in 1..Len(melted) |->
                                    IF k <= Len(melted[s]) THEN melted[s][k].value
                                    ELSE NaN]]]

\* _melted[0].join(_melted[1:], how = "outer"): one row per key of any stub.
join_outer(melted) ==
    LET keys == index_union(melted, <<>>)
    IN  [k \in 1..Len(keys) |->
            [id              |-> keys[k][1],
             resolution_type |-> keys[k][2],
             values          |-> [s \in 1..Len(melted) |-> value_at(melted[s], keys[k])]]]

\* df[id_vars].set_index(i).join(melted): the long rows whose id is a record's.
join_on_id(df, i, long) ==
    LET p == column_position(df, i)
    IN  SelectSeq(long, LAMBDA row : \E a \in 1..Len(df.rows) : df.rows[a][p] = row.id)

wide_to_long(df, stubnames, i) ==
    IF \E col \in Range(df.columns) : col \in Range(stubnames)
    THEN [error |-> "ValueError: stubname can't be identical to a column name",
          rows  |-> <<>>]
    ELSE IF i \notin Range(df.columns)
    THEN [error |-> "KeyError: gisaid_epi_isl", rows |-> <<>>]
    ELSE IF duplicated_any(df, i)
    THEN [error |-> "ValueError: the id variables need to uniquely identify each row",
          rows  |-> <<>>]
    ELSE LET melted == [s \in 1..Len(stubnames) |->
                           melt_stub(df, stubnames[s], i, get_var_names(df, stubnames[s]))]
         IN  [error |-> "none", rows |-> join_on_id(df, i, join_outer(melted))]

-----------------------------------------------------------------------------
(* The rest of the pipeline: [hierarchy_columns], fillna, drop_duplicates, *)
(* reset_index, sort_values                                                *)

\* .reset_index()[hierarchy_columns]: the stubs' value columns, in that order.
select_columns(long, hc) ==
    [k \in 1..Len(long) |-> [s \in 1..Len(hc) |-> long[k].values[s]]]

\* A mutant: nothing filled.
fillna_nothing(rows) == rows

\* A mutant: only the first column filled.
fillna_first_column(rows) ==
    [k \in 1..Len(rows) |->
        [s \in 1..Len(rows[k]) |->
            IF s = 1 /\ rows[k][s].isna THEN Str(<<>>) ELSE rows[k][s]]]

\* .fillna(''): every missing cell becomes the empty string.
fillna(rows) ==
    [k \in 1..Len(rows) |->
        [s \in 1..Len(rows[k]) |-> IF rows[k][s].isna THEN Str(<<>>) ELSE rows[k][s]]]

\* A mutant: every row kept.
drop_duplicates_nothing(rows) == rows

\* A mutant: rows compared on their first column only.
RECURSIVE drop_duplicates_first_column(_)
drop_duplicates_first_column(rows) ==
    IF rows = <<>> THEN <<>>
    ELSE LET front == drop_duplicates_first_column(SubSeq(rows, 1, Len(rows) - 1))
             last  == rows[Len(rows)]
         IN  IF \E k \in 1..Len(front) : front[k][1] = last[1] THEN front
             ELSE Append(front, last)

\* .drop_duplicates(): the first of each group of equal rows is kept.
RECURSIVE drop_duplicates(_)
drop_duplicates(rows) ==
    IF rows = <<>> THEN <<>>
    ELSE LET front == drop_duplicates(SubSeq(rows, 1, Len(rows) - 1))
             last  == rows[Len(rows)]
         IN  IF last \in Range(front) THEN front ELSE Append(front, last)

\* r goes before the first row greater than it (a stable insertion).
insert_sorted(sorted, r) ==
    LET after == {k \in 1..Len(sorted) : RowLess(r, sorted[k])}
        at    == IF after = {} THEN Len(sorted) + 1
                 ELSE CHOOSE k \in after : \A j \in after : k <= j
    IN  SubSeq(sorted, 1, at - 1) \o <<r>> \o SubSeq(sorted, at, Len(sorted))

\* A mutant: rows left in the order they came.
sort_values_unsorted(rows) == rows

\* .sort_values(by = hierarchy_columns): ascending, by all the columns in order.
RECURSIVE sort_values(_)
sort_values(rows) ==
    IF rows = <<>> THEN <<>>
    ELSE insert_sorted(sort_values(SubSeq(rows, 1, Len(rows) - 1)), rows[Len(rows)])

\* self: the caller's table afterwards; error: "none" or the exception raised;
\* table: the table returned.
hierarchy_dataframe(md, hc) ==
    LET renamed == rename(md, hc)
        long    == wide_to_long(renamed.out, hc, gisaid_epi_isl)
    IN  IF long.error # "none"
        THEN [self |-> renamed.self, error |-> long.error, table |-> NoTable]
        ELSE [self  |-> renamed.self,
              error |-> "none",
              table |-> [columns |-> hc,
                         rows    |-> sort_values(drop_duplicates(fillna(
                                        select_columns(long.rows, hc))))]]

-----------------------------------------------------------------------------
(* The caller: a metadata table, one call, and a second call on the result *)

HierarchyChoices == {<<region>>, <<region, country>>}

\* The location columns a table may have, in the order it has them.
ColumnOrder == <<region, region \o exposure, country, country \o exposure>>

Candidates(hc) == {col \in Range(ColumnOrder) : <<col[1]>> \in Range(hc)}

Identifier(k) == Str(<<k>>)

\* The returned table with an identifier column of distinct values put in front.
with_identifier(table) ==
    [columns |-> <<gisaid_epi_isl>> \o table.columns,
     rows    |-> [k \in 1..Len(table.rows) |-> <<Identifier(k)>> \o table.rows[k]]]

Init ==
    /\ \E hc \in HierarchyChoices, n \in 0..MaxRows :
         \E present \in SUBSET Candidates(hc) :
            LET cols == SelectSeq(ColumnOrder, LAMBDA col : col \in present)
            IN  \E ids \in [1..n -> 1..MaxRows], data \in [1..n -> [1..Len(cols) -> Cells]] :
                   /\ \A k \in 1..n : ids[k] <= k
                   /\ hierarchy_columns = hc
                   /\ metadata =
                        [columns |-> <<gisaid_epi_isl>> \o cols,
                         rows    |-> [k \in 1..n |->
                                        <<Identifier(ids[k])>> \o
                                        [c \in 1..Len(cols) |-> data[k][c]]]]
    /\ pc = "start"
    /\ result = NoTable
    /\ error = "none"
    /\ pc2 = "none"
    /\ result2 = NoTable
    /\ error2 = "none"

\* hierarchy_dataframe(metadata, hierarchy_columns)
Call ==
    /\ pc = "start"
    /\ LET out == hierarchy_dataframe(metadata, hierarchy_columns)
       IN  /\ metadata' = out.self
           /\ result' = out.table
           /\ error' = out.error
           /\ pc' = IF out.error = "none" THEN "returned" ELSE "raised"
    /\ UNCHANGED <<hierarchy_columns, pc2, result2, error2>>

\* hierarchy_dataframe(result, hierarchy_columns): the returned table as it is.
Reapply ==
    /\ pc = "returned"
    /\ pc2 = "none"
    /\ LET out == hierarchy_dataframe(result, hierarchy_columns)
       IN  /\ result' = out.self
           /\ result2' = out.table
           /\ error2' = out.error
           /\ pc2' = IF out.error = "none" THEN "returned" ELSE "raised"
    /\ UNCHANGED <<metadata, hierarchy_columns, pc, error>>

\* The same on the returned table given an identifier column first.
ReapplyKeyed ==
    /\ pc = "returned"
    /\ pc2 = "none"
    /\ LET out == hierarchy_dataframe(with_identifier(result), hierarchy_columns)
       IN  /\ result2' = out.table
           /\ error2' = out.error
           /\ pc2' = IF out.error = "none" THEN "keyed_returned" ELSE "keyed_raised"
    /\ UNCHANGED <<metadata, hierarchy_columns, pc, result, error>>

Next == Call \/ Reapply \/ ReapplyKeyed

Spec == Init /\ [][Next]_vars

-----------------------------------------------------------------------------
(* What the claims speak of, read off the caller's table *)

Returned == pc = "returned"
Raised == pc = "raised"

\* A cell's text, the missing marker read as the empty string.
Normal(cell) == IF cell.isna THEN <<>> ELSE cell.str

IdPosition == CHOOSE k \in 1..Len(metadata.columns) : metadata.columns[k] = gisaid_epi_isl

DistinctIds ==
    \A a, b \in 1..Len(metadata.rows) :
        a # b => metadata.rows[a][IdPosition] # metadata.rows[b][IdPosition]

\* The name of level h's column of suffix s: h itself for "strain".
ColumnFor(h, s) == IF s = strain THEN h ELSE h \o s

HasColumn(h, s) == ColumnFor(h, s) \in Range(metadata.columns)

Levels == Range(hierarchy_columns)

\* The suffix variants the table has for some level.
Variants == {s \in {strain, exposure} : \E h \in Levels : HasColumn(h, s)}

HasColumnsFor(h) == \E s \in {strain, exposure} : HasColumn(h, s)

MissingStub == \E h \in Levels : ~HasColumnsFor(h)

ValueOf(row, h, s) ==
    IF HasColumn(h, s)
    THEN Normal(row[CHOOSE k \in 1..Len(metadata.columns) :
                        metadata.columns[k] = ColumnFor(h, s)])
    ELSE <<>>

\* Record a's hierarchy in variant s.
Combination(a, s) ==
    [k \in 1..Len(hierarchy_columns) |->
        Str(ValueOf(metadata.rows[a], hierarchy_columns[k], s))]

Combinations == {Combination(a, s) : a \in 1..Len(metadata.rows), s \in Variants}

Occurrences(row) == Cardinality({k \in 1..Len(result.rows) : result.rows[k] = row})

\* Independent of StrLess: a is a proper prefix of b, or smaller where they first differ.
StrBefore(a, b) ==
    \/ Len(a) < Len(b) /\ SubSeq(b, 1, Len(a)) = a
    \/ \E j \in 1..Len(a) :
          /\ j <= Len(b)
          /\ SubSeq(a, 1, j - 1) = SubSeq(b, 1, j - 1)
          /\ a[j] < b[j]

\* r <= s, the columns compared left to right.
LexLeq(r, s) ==
    \/ \A k \in 1..Len(r) : Normal(r[k]) = Normal(s[k])
    \/ \E k \in 1..Len(r) :
          /\ \A j \in 1..(k - 1) : Normal(r[j]) = Normal(s[j])
          /\ StrBefore(Normal(r[k]), Normal(s[k]))

-----------------------------------------------------------------------------
(* The claims *)

\* C1: with unique gisaid_epi_isl values, every combination of level values
\* some record has in some suffix variant (null read as the empty string, the
\* exact-name columns and the stub columns alike) is exactly one row of the
\* returned table.
C1_Completeness ==
    (pc # "start" /\ DistinctIds) =>
        /\ Returned
        /\ \A c \in Combinations : Occurrences(c) = 1

\* Two records, two variants, fewer combinations than (record, variant) pairs.
C1_Witness ==
    /\ Returned
    /\ Len(hierarchy_columns) = 2
    /\ Len(metadata.rows) = 2
    /\ Variants = {strain, exposure}
    /\ Cardinality(Combinations) = 3
    /\ Len(result.rows) = 3

ScenarioTable ==
    [columns |-> <<gisaid_epi_isl, region, region \o exposure>>,
     rows    |-> << <<Identifier(1), Str(Europe), Str(Asia)>>,
                    <<Identifier(2), Str(Europe), NaN>> >>]

InScenario ==
    pc # "start" /\ metadata = ScenarioTable /\ hierarchy_columns = <<region>>

\* C2 as claimed: in the scenario (A1: region Europe, region_exposure Asia; A2:
\* region Europe, region_exposure null; hierarchy_columns [region]) the call
\* returns exactly the two rows Asia, Europe.
C2_ScenarioTwoRows ==
    InScenario =>
        /\ Returned
        /\ result = [columns |-> <<region>>,
                     rows    |-> << <<Str(Asia)>>, <<Str(Europe)>> >>]

\* C2 as amended: in the scenario the call returns exactly three rows, in this
\* order: the empty string (the null exposure region), Asia, Europe.
C2_ScenarioThreeRows ==
    InScenario =>
        /\ Returned
        /\ result = [columns |-> <<region>>,
                     rows    |-> << <<Str(<<>>)>>, <<Str(Asia)>>, <<Str(Europe)>> >>]

C2_Witness == InScenario /\ Returned /\ Len(result.rows) = 3

\* C3 as claimed: when some level of hierarchy_columns has neither its
\* exact-name column nor any stub column, the call fails and returns no table.
C3_MissingStubFails ==
    (pc # "start" /\ MissingStub) => Raised

\* C3 as amended: when some level has no column and the gisaid_epi_isl values
\* are pairwise distinct, the call raises nothing and returns a table in which
\* that level's column holds the empty string in every row.
C3_MissingStubEmptyColumn ==
    (pc # "start" /\ MissingStub /\ DistinctIds) =>
        /\ Returned
        /\ error = "none"
        /\ \A s \in 1..Len(hierarchy_columns) :
              ~HasColumnsFor(hierarchy_columns[s]) =>
                  \A k \in 1..Len(result.rows) : result.rows[k][s] = Str(<<>>)

\* region has columns, country has none, and rows come back.
C3_Witness ==
    /\ Returned
    /\ hierarchy_columns = <<region, country>>
    /\ HasColumnsFor(region)
    /\ ~HasColumnsFor(country)
    /\ Len(result.rows) = 2
    /\ \A k \in 1..2 : result.rows[k][2] = Str(<<>>)

\* C4: each returned row is lexicographically <= the next, the columns
\* compared left to right in the order of hierarchy_columns and the empty
\* string before every other string.
C4_SortOrder ==
    Returned =>
        \A k \in 1..(Len(result.rows) - 1) :
            LexLeq(result.rows[k], result.rows[k + 1])

\* Rows that the second column orders, after a row that starts with "".
C4_Witness ==
    /\ Returned
    /\ Len(result.rows) = 4
    /\ result.rows[1][1] = Str(<<>>)
    /\ result.rows[3][1] = result.rows[4][1]
    /\ result.rows[3][2] = Str(Asia)
    /\ result.rows[4][2] = Str(Europe)
    /\ metadata.rows[1][2] = Str(Europe)

\* C5: no two returned rows are equal in all of hierarchy_columns, nulls read
\* as the empty string.
C5_NoDuplicates ==
    Returned =>
        \A a, b \in 1..Len(result.rows) :
            a # b => \E k \in 1..Len(hierarchy_columns) :
                        Normal(result.rows[a][k]) # Normal(result.rows[b][k])

\* One record's region is null, the other's the empty string: one row.
C5_Witness ==
    /\ Returned
    /\ metadata.columns = <<gisaid_epi_isl, region>>
    /\ Len(metadata.rows) = 2
    /\ metadata.rows[1][2] = NaN
    /\ metadata.rows[2][2] = Str(<<>>)
    /\ Len(result.rows) = 1

\* C6: no cell of a returned table is the missing marker, the cells of a
\* (record, suffix) pair for which a level has no column included.
C6_NoNulls ==
    Returned =>
        \A k \in 1..Len(result.rows) :
            \A s \in 1..Len(hierarchy_columns) : ~result.rows[k][s].isna

\* region has an exposure column and country has not, and no input cell is null.
C6_Witness ==
    /\ Returned
    /\ hierarchy_columns = <<region, country>>
    /\ metadata.columns = <<gisaid_epi_isl, region, region \o exposure, country>>
    /\ Len(metadata.rows) = 1
    /\ \A c \in 1..4 : ~metadata.rows[1][c].isna
    /\ \E k \in 1..Len(result.rows) :
          result.rows[k][1] = Str(Asia) /\ result.rows[k][2] = Str(<<>>)

\* C7 as claimed: the call on a returned table, with the same
\* hierarchy_columns, succeeds and returns the same rows in the same order.
C7_ReapplySucceeds ==
    pc2 \in {"returned", "raised"} => (pc2 = "returned" /\ result2 = result)

\* C7 as amended: the call on a returned table as it is fails, the table having
\* no gisaid_epi_isl column; on the returned table given a gisaid_epi_isl
\* column of pairwise distinct values it succeeds and returns the same rows in
\* the same order.
C7_ReapplyNeedsIdentifier ==
    /\ pc2 \in {"returned", "raised"} =>
          (pc2 = "raised" /\ error2 = "KeyError: gisaid_epi_isl")
    /\ pc2 \in {"keyed_returned", "keyed_raised"} =>
          (pc2 = "keyed_returned" /\ error2 = "none" /\ result2 = result)

C7_Witness ==
    /\ pc2 = "keyed_returned"
    /\ Len(hierarchy_columns) = 2
    /\ Len(result.rows) = 4
    /\ result2 = result

\* C8: no call changes the table it is given (its column names, rows and
\* values), whether it returns or raises, nor hierarchy_columns.
C8_NoSideEffects ==
    [][/\ metadata' = metadata
       /\ hierarchy_columns' = hierarchy_columns
       /\ (pc2 = "none" /\ pc2' \in {"returned", "raised"}) => result' = result]_vars

\* A call has returned and the table still has the exact-name column.
C8_Witness ==
    /\ Returned
    /\ region \in Range(metadata.columns)
    /\ region \o strain \notin Range(metadata.columns)
    /\ Len(metadata.rows) = 2

\* C9: every returned row is, for one record and one suffix variant (the
\* exact-name column being variant "strain"), that record's values of the
\* levels in that variant, null or an absent column read as the empty string.
C9_PairedBySuffix ==
    Returned =>
        \A k \in 1..Len(result.rows) : result.rows[k] \in Combinations

\* A record whose strain values and exposure values differ in both levels.
C9_Witness ==
    /\ Returned
    /\ hierarchy_columns = <<region, country>>
    /\ Len(metadata.columns) = 5
    /\ Len(metadata.rows) = 1
    /\ metadata.rows[1] = <<Identifier(1), Str(Asia), Str(Europe), Str(Europe), Str(Asia)>>
    /\ result.rows = << <<Str(Asia), Str(Europe)>>, <<Str(Europe), Str(Asia)>> >>

\* C10: a table with two rows of the same gisaid_epi_isl value is rejected
\* with an error and no table; a table is returned only when the values are
\* pairwise distinct.
C10_DuplicateIdsRejected ==
    /\ (pc # "start" /\ ~DistinctIds) =>
          /\ Raised
          /\ error = "ValueError: the id variables need to uniquely identify each row"
          /\ result = NoTable
    /\ Returned => DistinctIds

\* Rejected although every level has columns.
C10_Witness ==
    /\ Raised
    /\ ~DistinctIds
    /\ ~MissingStub
    /\ Len(hierarchy_columns) = 2

====
